---- MODULE Spec2Model ----
(***************************************************************************)
(* Model of the Hydra Go client (package hydra, hydra.go) and of the       *)
(* receive loop of its command-line front end.                             *)
(*                                                                         *)
(* Strings whose bytes the code inspects (file paths, base64 text) are     *)
(* sequences of one-character strings; file contents are sequences of      *)
(* bytes 0..255.  JSON values are tagged records.                          *)
(***************************************************************************)
EXTENDS Integers, Sequences, FiniteSets, TLC

VARIABLES
    client,        \* the *Client the call is made on
    filePaths,     \* RecognizeCfg argument filePaths ...string
    dataSourceId,  \* RecognizeCfg argument dataSourceId
    doFaster,      \* cfg.DoFaster
    pc,            \* position of the RecognizeCfg call
    i,             \* index of the running for loop (1-based)
    sr,            \* the HydraRequest being built
    reads,         \* the paths handed to ioutil.ReadFile so far, in order
    buf,           \* json.Marshal(&sr): the JSON document, once set
    req,           \* the *http.Request, once set
    posts,         \* number of httpClient.Do calls made
    net,           \* the exchange: "idle", "inflight", "done"
    resp,          \* what Do returns: a transport error or a response
    rfs,           \* var rfs RecognizedFiles
    ret,           \* the values returned by RecognizeCfg: [chan, err]
    filesChan,     \* the channel: [made, buf, closed]
    closes,        \* number of close(filesChan) executed
    prodPc,        \* the goroutine of lines 222-227: "none", "loop", "done"
    prodIdx,       \* index of the range loop over rfs.Rows (1-based)
    consPc,        \* caller's receive loop: "idle", "recv", "done"
    received,      \* rows the caller took from the channel, in order
    rf,            \* the RecognizedFile the accessors are called on
    field,         \* the accessor's argument
    acc,           \* result of rf.Get(field): "none" or [op, out]
    accT,          \* result of rf.GetTable(field): "none" or [op, out]
    calls,         \* concurrent calls on client: call id -> the call's locals
    chans          \* the channels made by those calls: channel id -> channel

vars == <<client, filePaths, dataSourceId, doFaster, pc, i, sr, reads, buf, req, posts,
          net, resp, rfs, ret, filesChan, closes, prodPc, prodIdx, consPc,
          received, rf, field, acc, accT, calls, chans>>

callVars == <<client, filePaths, dataSourceId, doFaster>>
accVars  == <<rf, field, acc, accT>>
concVars == <<calls, chans>>
chanVars == <<filesChan, closes, prodPc, prodIdx, consPc, received>>

(***************************************************************************)
(* Bounds of the model.                                                    *)
(***************************************************************************)
MaxFiles == 2        \* longest filePaths list of a call
MaxShortRows == 2    \* longest response whose rows are drawn freely
MaxExtraRows == 1    \* the longest response has ChanCap + MaxExtraRows rows
MaxStemLen == 1      \* longest stem put before a suffix in the MIME inputs
MaxTableRows == 2    \* longest table in a RecognizedText map
NumCalls == 2        \* number of concurrent calls on one client

(***************************************************************************)
(* Program constants.                                                      *)
(***************************************************************************)
ChanCap == 16
StatusUnauthorized == 401
StatusNotFound == 404
StatusOK == 200

\* ------------------------------------------------------------------------
\* Strings
\* ------------------------------------------------------------------------
CasePairs ==
    { <<"A","a">>, <<"B","b">>, <<"C","c">>, <<"D","d">>, <<"E","e">>,
      <<"F","f">>, <<"G","g">>, <<"I","i">>, <<"J","j">>, <<"M","m">>,
      <<"N","n">>, <<"P","p">>, <<"T","t">>, <<"X","x">> }

\* unicode.ToLower on one ASCII character
ToLowerChar(c) ==
    IF \E p \in CasePairs : p[1] = c
    THEN (CHOOSE p \in CasePairs : p[1] = c)[2]
    ELSE c

\* strings.ToLower
ToLower(s) == [k \in 1..Len(s) |-> ToLowerChar(s[k])]

\* fp[len(fp)-n : len(fp)]
Suffix(fp, n) == SubSeq(fp, Len(fp) - n + 1, Len(fp))

\* ------------------------------------------------------------------------
\* Errors
\* ------------------------------------------------------------------------
NoErr == [kind |-> "nil"]
MimeErr(fp) == [kind |-> "mime", path |-> fp]
ReadErr(fp) == [kind |-> "io", path |-> fp]

\* ------------------------------------------------------------------------
\* MIME inference: the body of the first loop of RecognizeCfg for one path
\* ------------------------------------------------------------------------
\* the suffix compared without strings.ToLower
InferMime_NoFold(fp) ==
    IF Len(fp) < 4 THEN [ok |-> FALSE, err |-> MimeErr(fp)]
    ELSE LET s == Suffix(fp, 4) IN
         IF s = <<".","b","m","p">> THEN [ok |-> TRUE, mime |-> "image/bmp"]
         ELSE IF s = <<".","g","i","f">> THEN [ok |-> TRUE, mime |-> "image/gif"]
         ELSE IF s = <<".","p","d","f">> THEN [ok |-> TRUE, mime |-> "application/pdf"]
         ELSE IF s = <<".","p","n","g">> THEN [ok |-> TRUE, mime |-> "image/png"]
         ELSE IF s = <<".","j","p","g">> THEN [ok |-> TRUE, mime |-> "image/jpg"]
         ELSE IF Len(fp) >= 5 /\ Suffix(fp, 5) = <<".","j","p","e","g">>
              THEN [ok |-> TRUE, mime |-> "image/jpeg"]
              ELSE [ok |-> FALSE, err |-> MimeErr(fp)]

\* lines 159-179
InferMime(fp) ==
    IF Len(fp) < 4 THEN [ok |-> FALSE, err |-> MimeErr(fp)]
    ELSE LET s == ToLower(Suffix(fp, 4)) IN
         IF s = <<".","b","m","p">> THEN [ok |-> TRUE, mime |-> "image/bmp"]
         ELSE IF s = <<".","g","i","f">> THEN [ok |-> TRUE, mime |-> "image/gif"]
         ELSE IF s = <<".","p","d","f">> THEN [ok |-> TRUE, mime |-> "application/pdf"]
         ELSE IF s = <<".","p","n","g">> THEN [ok |-> TRUE, mime |-> "image/png"]
         ELSE IF s = <<".","j","p","g">> THEN [ok |-> TRUE, mime |-> "image/jpg"]
         ELSE IF Len(fp) >= 5 /\ ToLower(Suffix(fp, 5)) = <<".","j","p","e","g">>
              THEN [ok |-> TRUE, mime |-> "image/jpeg"]
              ELSE [ok |-> FALSE, err |-> MimeErr(fp)]

\* ------------------------------------------------------------------------
\* base64.StdEncoding.EncodeToString
\* ------------------------------------------------------------------------
B64Alphabet ==
    << "A","B","C","D","E","F","G","H","I","J","K","L","M","N","O","P",
       "Q","R","S","T","U","V","W","X","Y","Z","a","b","c","d","e","f",
       "g","h","i","j","k","l","m","n","o","p","q","r","s","t","u","v",
       "w","x","y","z","0","1","2","3","4","5","6","7","8","9","+","/" >>

B64Char(v) == B64Alphabet[v + 1]

RECURSIVE Base64Encode(_)
Base64Encode(bs) ==
    IF Len(bs) = 0 THEN << >>
    ELSE IF Len(bs) = 1 THEN
        << B64Char(bs[1] \div 4), B64Char((bs[1] % 4) * 16), "=", "=" >>
    ELSE IF Len(bs) = 2 THEN
        << B64Char(bs[1] \div 4),
           B64Char((bs[1] % 4) * 16 + (bs[2] \div 16)),
           B64Char((bs[2] % 16) * 4), "=" >>
    ELSE
        << B64Char(bs[1] \div 4),
           B64Char((bs[1] % 4) * 16 + (bs[2] \div 16)),
           B64Char((bs[2] % 16) * 4 + (bs[3] \div 64)),
           B64Char(bs[3] % 64) >>
        \o Base64Encode(SubSeq(bs, 4, Len(bs)))

\* ------------------------------------------------------------------------
\* The files on disk.  A path that is not listed does not exist.
\* ------------------------------------------------------------------------
P_png  == <<"a",".","p","n","g">>
P_PDF  == <<"b",".","P","D","F">>
P_jpeg == <<".","j","p","e","g">>
P_bmp  == <<"d",".","b","m","p">>
P_JPG  == <<"e",".","J","p","g">>
P_gone == <<"m",".","g","i","f">>
P_txt  == <<"c",".","t","x","t">>
P_abc  == <<"a","b","c">>

DiskFiles == { P_png, P_PDF, P_jpeg, P_bmp, P_JPG }

FileBytes(fp) ==
    CASE fp = P_png  -> <<77, 97>>
      [] fp = P_PDF  -> << >>
      [] fp = P_jpeg -> <<255>>
      [] fp = P_bmp  -> <<0, 16, 131>>
      [] fp = P_JPG  -> <<255, 216, 255, 224>>

\* ioutil.ReadFile
ReadFile(fp) ==
    IF fp \in DiskFiles THEN [ok |-> TRUE, bytes |-> FileBytes(fp)]
    ELSE [ok |-> FALSE, err |-> ReadErr(fp)]

\* ------------------------------------------------------------------------
\* RecognizeCfg, lines 153-229
\* ------------------------------------------------------------------------
ZeroFile == [MimeType |-> "", Base64File |-> << >>]
NoRet == [chan |-> "unset", err |-> [kind |-> "unset"]]

Fail_KeepChan(e) ==
    /\ ret' = [chan |-> "filesChan", err |-> e]
    /\ pc' = "returned"

\* return nil, err
Fail(e) ==
    /\ ret' = [chan |-> "nil", err |-> e]
    /\ pc' = "returned"

\* lines 154-157
MakeRequest(paths, faster) ==
    [Files |-> [k \in 1..Len(paths) |-> ZeroFile], DoFaster |-> faster]

\* one loop that infers the type and reads the file of each path in turn
MimeOk_Fused ==
    /\ pc = "mime"
    /\ i <= Len(filePaths)
    /\ InferMime(filePaths[i]).ok
    /\ reads' = Append(reads, filePaths[i])
    /\ IF ReadFile(filePaths[i]).ok
       THEN /\ sr' = [sr EXCEPT !.Files[i] =
                         [MimeType |-> InferMime(filePaths[i]).mime,
                          Base64File |-> Base64Encode(ReadFile(filePaths[i]).bytes)]]
            /\ i' = i + 1
            /\ UNCHANGED <<pc, ret>>
       ELSE /\ Fail(ReadFile(filePaths[i]).err)
            /\ UNCHANGED <<i, sr>>
    /\ UNCHANGED <<callVars, buf, req, posts, net, resp, rfs, chanVars, accVars, concVars>>

\* lines 158-180, an iteration that assigns the MIME type
MimeOk ==
    /\ pc = "mime"
    /\ i <= Len(filePaths)
    /\ InferMime(filePaths[i]).ok
    /\ sr' = [sr EXCEPT !.Files[i].MimeType = InferMime(filePaths[i]).mime]
    /\ i' = i + 1
    /\ UNCHANGED <<callVars, pc, reads, buf, req, posts, net, resp, rfs, ret, chanVars, accVars, concVars>>

\* lines 159-161 and 176-178, an iteration that returns the error
MimeFail ==
    /\ pc = "mime"
    /\ i <= Len(filePaths)
    /\ ~InferMime(filePaths[i]).ok
    /\ Fail(InferMime(filePaths[i]).err)
    /\ UNCHANGED <<callVars, i, sr, reads, buf, req, posts, net, resp, rfs, chanVars, accVars, concVars>>

\* the first loop ends, the second starts (line 181)
MimeDone ==
    /\ pc = "mime"
    /\ i > Len(filePaths)
    /\ i' = 1
    /\ pc' = "read"
    /\ UNCHANGED <<callVars, sr, reads, buf, req, posts, net, resp, rfs, ret, chanVars, accVars, concVars>>

\* base64.RawStdEncoding in place of base64.StdEncoding
ReadOk_Raw ==
    /\ pc = "read"
    /\ i <= Len(filePaths)
    /\ ReadFile(filePaths[i]).ok
    /\ reads' = Append(reads, filePaths[i])
    /\ sr' = [sr EXCEPT !.Files[i].Base64File =
                 SelectSeq(Base64Encode(ReadFile(filePaths[i]).bytes), LAMBDA c : c # "=")]
    /\ i' = i + 1
    /\ UNCHANGED <<callVars, pc, buf, req, posts, net, resp, rfs, ret, chanVars, accVars, concVars>>

\* lines 182-186, an iteration whose read succeeds
ReadOk ==
    /\ pc = "read"
    /\ i <= Len(filePaths)
    /\ ReadFile(filePaths[i]).ok
    /\ reads' = Append(reads, filePaths[i])
    /\ sr' = [sr EXCEPT !.Files[i].Base64File = Base64Encode(ReadFile(filePaths[i]).bytes)]
    /\ i' = i + 1
    /\ UNCHANGED <<callVars, pc, buf, req, posts, net, resp, rfs, ret, chanVars, accVars, concVars>>

\* lines 182-185, an iteration whose read fails
ReadFail ==
    /\ pc = "read"
    /\ i <= Len(filePaths)
    /\ ~ReadFile(filePaths[i]).ok
    /\ reads' = Append(reads, filePaths[i])
    /\ Fail(ReadFile(filePaths[i]).err)
    /\ UNCHANGED <<callVars, i, sr, buf, req, posts, net, resp, rfs, chanVars, accVars, concVars>>

\* json.Marshal(&sr), lines 188-191.  The struct tag renames Files to "files";
\* a struct of strings and a bool always marshals.
JsonMarshal(r) == [files |-> r.Files, DoFaster |-> r.DoFaster]

Marshal ==
    /\ pc = "read"
    /\ i > Len(filePaths)
    /\ buf' = [set |-> TRUE, doc |-> JsonMarshal(sr)]
    /\ pc' = "newreq"
    /\ UNCHANGED <<callVars, i, sr, reads, req, posts, net, resp, rfs, ret, chanVars, accVars, concVars>>

\* ------------------------------------------------------------------------
\* The request, lines 193-199
\* ------------------------------------------------------------------------
HexChars == {"0","1","2","3","4","5","6","7","8","9",
             "a","b","c","d","e","f","A","B","C","D","E","F"}

\* url.Parse inside http.NewRequest rejects a "%" that does not start a
\* two-digit hexadecimal escape
UrlParses(id) ==
    \A k \in 1..Len(id) :
        id[k] = "%" => /\ k + 2 <= Len(id)
                       /\ id[k+1] \in HexChars
                       /\ id[k+2] \in HexChars

NewRequestErr(id) == [kind |-> "newrequest", id |-> id]

\* lines 193, 198, 199
BuildRequest(c, id, body) ==
    [method |-> "POST",
     url |-> <<"https://siftrics.com/api/hydra/", id, "/">>,
     body |-> body,
     ContentType |-> "application/json",
     authorization |-> <<"Basic ", c.apiKey>>]

NewRequestOk ==
    /\ pc = "newreq"
    /\ UrlParses(dataSourceId)
    /\ req' = [set |-> TRUE, r |-> BuildRequest(client, dataSourceId, buf.doc)]
    /\ pc' = "do"
    /\ UNCHANGED <<callVars, i, sr, reads, buf, posts, net, resp, rfs, ret, chanVars, accVars, concVars>>

\* lines 194-196
NewRequestFail ==
    /\ pc = "newreq"
    /\ ~UrlParses(dataSourceId)
    /\ Fail(NewRequestErr(dataSourceId))
    /\ UNCHANGED <<callVars, i, sr, reads, buf, req, posts, net, resp, rfs, chanVars, accVars, concVars>>

\* ------------------------------------------------------------------------
\* The exchange, lines 200-204
\* ------------------------------------------------------------------------
\* the exchange moved into the goroutine
HttpDo_Async ==
    /\ pc = "do"
    /\ posts' = posts + 1
    /\ net' = "inflight"
    /\ pc' = "spawn"
    /\ UNCHANGED <<callVars, i, sr, reads, buf, req, resp, rfs, ret, chanVars, accVars, concVars>>

\* httpClient.Do(req) sends the request and blocks
HttpDo ==
    /\ pc = "do"
    /\ posts' = posts + 1
    /\ net' = "inflight"
    /\ pc' = "await"
    /\ UNCHANGED <<callVars, i, sr, reads, buf, req, resp, rfs, ret, chanVars, accVars, concVars>>

\* JSON objects the service may put in "Rows"
RT_name == [l \in {"name"} |-> [t |-> "str", s |-> "Acme Corp"]]

WireRows ==
    { [FileIndex |-> 0, RecognizedText |-> RT_name],
      [Error |-> "boom", FileIndex |-> 1],
      [Error |-> "", FileIndex |-> 2, Base64Image |-> "aW1n"] }

LongRow(k) ==
    IF k % 3 = 0 THEN [Error |-> "boom", FileIndex |-> k - 1]
    ELSE [FileIndex |-> k - 1, RecognizedText |-> RT_name]

RECURSIVE SeqsUpTo(_, _)
SeqsUpTo(S, n) ==
    IF n = 0 THEN { << >> }
    ELSE LET shorter == SeqsUpTo(S, n - 1) IN
         shorter \cup { Append(q, x) : q \in { t \in shorter : Len(t) = n - 1 }, x \in S }

RowLists ==
    SeqsUpTo(WireRows, MaxShortRows)
    \cup { [k \in 1..n |-> LongRow(k)] : n \in ChanCap..(ChanCap + MaxExtraRows) }

\* the bodies a response may carry: one whose read fails, text that is not
\* JSON, an object without "Rows", an object with "Rows"
Bodies ==
    { [readable |-> FALSE], [readable |-> TRUE, t |-> "garbage"],
      [readable |-> TRUE, t |-> "object", hasRows |-> FALSE] }
    \cup { [readable |-> TRUE, t |-> "object", hasRows |-> TRUE, Rows |-> rs] : rs \in RowLists }

HttpStatuses == { StatusOK, 201, StatusUnauthorized, StatusNotFound, 500 }

\* the service answers, or the transport fails
ServiceRespond ==
    /\ net = "inflight"
    /\ net' = "done"
    /\ \/ resp' = [kind |-> "transport"]
       \/ \E s \in HttpStatuses, b \in Bodies :
              resp' = [kind |-> "response", StatusCode |-> s, Body |-> b]
    /\ UNCHANGED <<callVars, pc, i, sr, reads, buf, req, posts, rfs, ret, chanVars, accVars, concVars>>

\* Do returns a response, line 201
DoReturnsResp ==
    /\ pc = "await"
    /\ net = "done"
    /\ resp.kind = "response"
    /\ pc' = "status"
    /\ UNCHANGED <<callVars, i, sr, reads, buf, req, posts, net, resp, rfs, ret, chanVars, accVars, concVars>>

\* a transport error retried
DoReturnsErr_Retry ==
    /\ pc = "await"
    /\ net = "done"
    /\ resp.kind = "transport"
    /\ pc' = "do"
    /\ UNCHANGED <<callVars, i, sr, reads, buf, req, posts, net, resp, rfs, ret, chanVars, accVars, concVars>>

\* Do returns an error, lines 202-204
DoReturnsErr ==
    /\ pc = "await"
    /\ net = "done"
    /\ resp.kind = "transport"
    /\ Fail([kind |-> "transport"])
    /\ UNCHANGED <<callVars, i, sr, reads, buf, req, posts, net, resp, rfs, chanVars, accVars, concVars>>

\* ------------------------------------------------------------------------
\* Response handling, lines 205-219
\* ------------------------------------------------------------------------
\* 404 folded into the generic non-200 handling
StatusErr_404AsGeneric(r) ==
    IF r.StatusCode = StatusUnauthorized THEN [kind |-> "invalid api key"]
    ELSE IF ~r.Body.readable THEN [kind |-> "non-200", status |-> r.StatusCode, hasBody |-> FALSE]
    ELSE [kind |-> "non-200", status |-> r.StatusCode, hasBody |-> TRUE, body |-> r.Body]

\* the error of lines 205-215 for a status that is not 200
StatusErr(r) ==
    IF r.StatusCode = StatusUnauthorized THEN [kind |-> "invalid api key"]
    ELSE IF r.StatusCode = StatusNotFound THEN [kind |-> "data source not found"]
    ELSE IF ~r.Body.readable THEN [kind |-> "non-200", status |-> r.StatusCode, hasBody |-> FALSE]
    ELSE [kind |-> "non-200", status |-> r.StatusCode, hasBody |-> TRUE, body |-> r.Body]

StatusNot200 ==
    /\ pc = "status"
    /\ resp.StatusCode # StatusOK
    /\ Fail(StatusErr(resp))
    /\ UNCHANGED <<callVars, i, sr, reads, buf, req, posts, net, resp, rfs, chanVars, accVars, concVars>>

Status200 ==
    /\ pc = "status"
    /\ resp.StatusCode = StatusOK
    /\ pc' = "decode"
    /\ UNCHANGED <<callVars, i, sr, reads, buf, req, posts, net, resp, rfs, ret, chanVars, accVars, concVars>>

EmptyMap == [l \in {} |-> l]

\* encoding/json into RecognizedFile: a key the object lacks leaves the zero value
DecodeRow(w) ==
    [Error |-> IF "Error" \in DOMAIN w THEN w.Error ELSE "",
     FileIndex |-> IF "FileIndex" \in DOMAIN w THEN w.FileIndex ELSE 0,
     RecognizedText |-> IF "RecognizedText" \in DOMAIN w THEN w.RecognizedText ELSE EmptyMap,
     Base64Image |-> IF "Base64Image" \in DOMAIN w THEN w.Base64Image ELSE ""]

\* json.NewDecoder(resp.Body).Decode(&rfs), line 217
JsonDecode(b) ==
    IF ~b.readable \/ b.t = "garbage" THEN [ok |-> FALSE]
    ELSE IF ~b.hasRows THEN [ok |-> TRUE, val |-> [Rows |-> << >>]]
    ELSE [ok |-> TRUE, val |-> [Rows |-> [k \in 1..Len(b.Rows) |-> DecodeRow(b.Rows[k])]]]

DecodeOk ==
    /\ pc = "decode"
    /\ JsonDecode(resp.Body).ok
    /\ rfs' = JsonDecode(resp.Body).val
    /\ pc' = "spawn"
    /\ UNCHANGED <<callVars, i, sr, reads, buf, req, posts, net, resp, ret, chanVars, accVars, concVars>>

\* lines 217-219
DecodeFail ==
    /\ pc = "decode"
    /\ ~JsonDecode(resp.Body).ok
    /\ Fail([kind |-> "decode"])
    /\ UNCHANGED <<callVars, i, sr, reads, buf, req, posts, net, resp, rfs, chanVars, accVars, concVars>>

\* ------------------------------------------------------------------------
\* Delivery, lines 221-228
\* ------------------------------------------------------------------------
\* make(chan RecognizedFile, 16) and the go statement
Spawn ==
    /\ pc = "spawn"
    /\ filesChan' = [made |-> TRUE, buf |-> << >>, closed |-> FALSE]
    /\ prodPc' = "loop"
    /\ prodIdx' = 1
    /\ pc' = "return"
    /\ UNCHANGED <<callVars, i, sr, reads, buf, req, posts, net, resp, rfs, ret,
                   closes, consPc, received, accVars, concVars>>

\* return filesChan, nil; the caller enters its receive loop
ReturnChan ==
    /\ pc = "return"
    /\ ret' = [chan |-> "filesChan", err |-> NoErr]
    /\ pc' = "returned"
    /\ consPc' = "recv"
    /\ UNCHANGED <<callVars, i, sr, reads, buf, req, posts, net, resp, rfs,
                   filesChan, closes, prodPc, prodIdx, received, accVars, concVars>>

\* a queue without a capacity in place of the channel
ProducerSend_NoBlock ==
    /\ prodPc = "loop"
    /\ prodIdx <= Len(rfs.Rows)
    /\ filesChan' = [filesChan EXCEPT !.buf = Append(@, rfs.Rows[prodIdx])]
    /\ prodIdx' = prodIdx + 1
    /\ UNCHANGED <<callVars, pc, i, sr, reads, buf, req, posts, net, resp, rfs, ret,
                   closes, prodPc, consPc, received, accVars, concVars>>

\* a row with an Error is not forwarded
ProducerSend_SkipErrors ==
    /\ prodPc = "loop"
    /\ prodIdx <= Len(rfs.Rows)
    /\ Len(filesChan.buf) < ChanCap
    /\ filesChan' = IF rfs.Rows[prodIdx].Error = ""
                    THEN [filesChan EXCEPT !.buf = Append(@, rfs.Rows[prodIdx])]
                    ELSE filesChan
    /\ prodIdx' = prodIdx + 1
    /\ UNCHANGED <<callVars, pc, i, sr, reads, buf, req, posts, net, resp, rfs, ret,
                   closes, prodPc, consPc, received, accVars, concVars>>

\* filesChan <- rf, line 224: blocks while the buffer is full
ProducerSend ==
    /\ prodPc = "loop"
    /\ prodIdx <= Len(rfs.Rows)
    /\ Len(filesChan.buf) < ChanCap
    /\ filesChan' = [filesChan EXCEPT !.buf = Append(@, rfs.Rows[prodIdx])]
    /\ prodIdx' = prodIdx + 1
    /\ UNCHANGED <<callVars, pc, i, sr, reads, buf, req, posts, net, resp, rfs, ret,
                   closes, prodPc, consPc, received, accVars, concVars>>

\* the goroutine ends without closing
ProducerClose_NoClose ==
    /\ prodPc = "loop"
    /\ prodIdx > Len(rfs.Rows)
    /\ prodPc' = "done"
    /\ UNCHANGED <<callVars, pc, i, sr, reads, buf, req, posts, net, resp, rfs, ret,
                   filesChan, closes, prodIdx, consPc, received, accVars, concVars>>

\* close(filesChan), line 226
ProducerClose ==
    /\ prodPc = "loop"
    /\ prodIdx > Len(rfs.Rows)
    /\ filesChan' = [filesChan EXCEPT !.closed = TRUE]
    /\ closes' = closes + 1
    /\ prodPc' = "done"
    /\ UNCHANGED <<callVars, pc, i, sr, reads, buf, req, posts, net, resp, rfs, ret,
                   prodIdx, consPc, received, accVars, concVars>>

\* rf, isOpen := <-filesChan with isOpen true; json.Marshal of a decoded row
\* does not fail, so the loop goes on
RecvRow ==
    /\ consPc = "recv"
    /\ Len(filesChan.buf) > 0
    /\ received' = Append(received, Head(filesChan.buf))
    /\ filesChan' = [filesChan EXCEPT !.buf = Tail(@)]
    /\ UNCHANGED <<callVars, pc, i, sr, reads, buf, req, posts, net, resp, rfs, ret,
                   closes, prodPc, prodIdx, consPc, accVars, concVars>>

\* rf, isOpen := <-filesChan with isOpen false: the loop breaks
RecvClosed ==
    /\ consPc = "recv"
    /\ Len(filesChan.buf) = 0
    /\ filesChan.closed
    /\ consPc' = "done"
    /\ UNCHANGED <<callVars, pc, i, sr, reads, buf, req, posts, net, resp, rfs, ret,
                   filesChan, closes, prodPc, prodIdx, received, accVars, concVars>>

\* ------------------------------------------------------------------------
\* Get, lines 62-78
\* ------------------------------------------------------------------------
\* the orders in which a range over a map with key set S may visit the keys
RECURSIVE Enumerations(_)
Enumerations(S) ==
    IF S = {} THEN { << >> }
    ELSE UNION { { <<x>> \o e : e \in Enumerations(S \ {x}) } : x \in S }

\* the ok of the map lookup ignored
GetOf_IgnoreMissing(r, f, fields) ==
    IF f \notin DOMAIN r.RecognizedText
    THEN [val |-> "", err |-> NoErr]
    ELSE IF r.RecognizedText[f].t # "str"
    THEN [val |-> "", err |-> [kind |-> "not a string, use GetTable", field |-> f]]
    ELSE [val |-> r.RecognizedText[f].s, err |-> NoErr]

\* the result of rf.Get(f) when the range of line 67 visits the keys as fields
GetOf(r, f, fields) ==
    IF f \notin DOMAIN r.RecognizedText
    THEN [val |-> "", err |-> [kind |-> "no such field", field |-> f, fields |-> fields]]
    ELSE IF r.RecognizedText[f].t # "str"
    THEN [val |-> "", err |-> [kind |-> "not a string, use GetTable", field |-> f]]
    ELSE [val |-> r.RecognizedText[f].s, err |-> NoErr]

Get ==
    /\ acc.op = "none"
    /\ \E fields \in Enumerations(DOMAIN rf.RecognizedText) :
           acc' = [op |-> "Get", out |-> GetOf(rf, field, fields)]
    /\ UNCHANGED <<callVars, pc, i, sr, reads, buf, req, posts, net, resp, rfs, ret,
                   chanVars, rf, field, accT, concVars>>

\* ------------------------------------------------------------------------
\* GetTable, lines 84-116
\* ------------------------------------------------------------------------
\* line 101: the element is a map[string]interface{}
IsRowMap(e) == e.t = "obj"

\* line 107: every value of the row map is a string
AllStrings(e) == \A c \in DOMAIN e.m : e.m[c].t = "str"

\* lines 105-112: the row map as a map[string]string
RowStrings(e) == [c \in DOMAIN e.m |-> e.m[c].s]

\* the error of line 103 or of line 109 for the first element of the wrong
\* shape, with the %T of what was found
ElemErr(a) ==
    LET bad(k) == ~IsRowMap(a[k]) \/ ~AllStrings(a[k])
        k == CHOOSE j \in 1..Len(a) : bad(j) /\ \A h \in 1..(j - 1) : ~bad(h)
    IN  IF ~IsRowMap(a[k])
        THEN [kind |-> "should never happen, expected map", got |-> a[k].t]
        ELSE [kind |-> "should never happen, expected string",
              got |-> a[k].m[CHOOSE c \in DOMAIN a[k].m : a[k].m[c].t # "str"].t]

\* the rows filled from the end of the slice
GetTableOf_Reversed(r, f, fields) ==
    IF f \notin DOMAIN r.RecognizedText
    THEN [val |-> << >>, err |-> [kind |-> "no such field", field |-> f, fields |-> fields]]
    ELSE IF r.RecognizedText[f].t # "arr"
    THEN [val |-> << >>, err |-> [kind |-> "not a table, use Get", field |-> f]]
    ELSE LET a == r.RecognizedText[f].a IN
         IF \E k \in 1..Len(a) : ~IsRowMap(a[k]) \/ ~AllStrings(a[k])
         THEN [val |-> << >>, err |-> ElemErr(a)]
         ELSE [val |-> [k \in 1..Len(a) |-> RowStrings(a[Len(a) + 1 - k])], err |-> NoErr]

\* an element that is no row map treated as a row without columns
GetTableOf_Lenient(r, f, fields) ==
    IF f \notin DOMAIN r.RecognizedText
    THEN [val |-> << >>, err |-> [kind |-> "no such field", field |-> f, fields |-> fields]]
    ELSE IF r.RecognizedText[f].t = "null"
    THEN [val |-> << >>, err |-> NoErr]
    ELSE IF r.RecognizedText[f].t # "arr"
    THEN [val |-> << >>, err |-> [kind |-> "not a table, use Get", field |-> f]]
    ELSE LET a == r.RecognizedText[f].a IN
         IF \E k \in 1..Len(a) : ~IsRowMap(a[k]) \/ ~AllStrings(a[k])
         THEN [val |-> << >>, err |-> ElemErr(a)]
         ELSE [val |-> [k \in 1..Len(a) |-> RowStrings(a[k])], err |-> NoErr]

\* the result of rf.GetTable(f) when the range of line 89 visits the keys as
\* fields; the first element or value of the wrong type ends the loop of
\* lines 100-114 with the error of line 103 or 109
GetTableOf(r, f, fields) ==
    IF f \notin DOMAIN r.RecognizedText
    THEN [val |-> << >>, err |-> [kind |-> "no such field", field |-> f, fields |-> fields]]
    ELSE IF r.RecognizedText[f].t # "arr"
    THEN [val |-> << >>, err |-> [kind |-> "not a table, use Get", field |-> f]]
    ELSE LET a == r.RecognizedText[f].a IN
         IF \E k \in 1..Len(a) : ~IsRowMap(a[k]) \/ ~AllStrings(a[k])
         THEN [val |-> << >>, err |-> ElemErr(a)]
         ELSE [val |-> [k \in 1..Len(a) |-> RowStrings(a[k])], err |-> NoErr]

GetTable ==
    /\ accT.op = "none"
    /\ \E fields \in Enumerations(DOMAIN rf.RecognizedText) :
           accT' = [op |-> "GetTable", out |-> GetTableOf(rf, field, fields)]
    /\ UNCHANGED <<callVars, pc, i, sr, reads, buf, req, posts, net, resp, rfs, ret,
                   chanVars, rf, field, acc, concVars>>

\* ------------------------------------------------------------------------
\* Concurrent calls of RecognizeCfg on one client.  Every variable of the
\* function is a local of the call, so each call has a record of its own;
\* lines 154-199 touch nothing but locals and read the files and the client,
\* and are one step here.
\* ------------------------------------------------------------------------
CallIds == 1..NumCalls

\* the channel a call makes at line 221
ChanOf_Shared(k) == 1

ChanOf(k) == k

FirstNoMime(paths) ==
    paths[CHOOSE k \in 1..Len(paths) :
              ~InferMime(paths[k]).ok /\ \A h \in 1..(k - 1) : InferMime(paths[h]).ok]

FirstNoRead(paths) ==
    paths[CHOOSE k \in 1..Len(paths) :
              ~ReadFile(paths[k]).ok /\ \A h \in 1..(k - 1) : ReadFile(paths[h]).ok]

\* the outcome of lines 154-199: the error returned, or the request
BuildOutcome(c, paths, id, faster) ==
    LET noMime(fp) == ~InferMime(fp).ok
        noRead(fp) == ~ReadFile(fp).ok
    IN  IF \E k \in 1..Len(paths) : noMime(paths[k])
        THEN [ok |-> FALSE, err |-> MimeErr(FirstNoMime(paths))]
        ELSE IF \E k \in 1..Len(paths) : noRead(paths[k])
        THEN [ok |-> FALSE, err |-> ReadErr(FirstNoRead(paths))]
        ELSE IF ~UrlParses(id)
        THEN [ok |-> FALSE, err |-> NewRequestErr(id)]
        ELSE [ok |-> TRUE,
              req |-> BuildRequest(c, id, JsonMarshal(
                  [Files |-> [k \in 1..Len(paths) |->
                                 [MimeType |-> InferMime(paths[k]).mime,
                                  Base64File |-> Base64Encode(ReadFile(paths[k]).bytes)]],
                   DoFaster |-> faster]))]

\* the outcome of lines 202-219 on what Do returned
ExchangeOutcome(r) ==
    IF r.kind = "transport" THEN [ok |-> FALSE, err |-> [kind |-> "transport"]]
    ELSE IF r.StatusCode # StatusOK THEN [ok |-> FALSE, err |-> StatusErr(r)]
    ELSE IF ~JsonDecode(r.Body).ok THEN [ok |-> FALSE, err |-> [kind |-> "decode"]]
    ELSE [ok |-> TRUE, rfs |-> JsonDecode(r.Body).val]

NewCall(paths, id, faster) ==
    [paths |-> paths, id |-> id, faster |-> faster, pc |-> "start",
     req |-> [set |-> FALSE], net |-> "idle", resp |-> [kind |-> "unset"],
     rfs |-> [Rows |-> << >>], ret |-> NoRet, chan |-> 0, spawned |-> 0,
     prodPc |-> "none", prodIdx |-> 0, consPc |-> "idle", received |-> << >>]

NoChan == [made |-> FALSE, buf |-> << >>, closed |-> FALSE, closers |-> << >>]

ConcUnchanged == UNCHANGED <<callVars, pc, i, sr, reads, buf, req, posts, net, resp, rfs,
                             ret, chanVars, accVars>>

\* lines 154-199
CallBuild(k) ==
    /\ calls[k].pc = "start"
    /\ LET o == BuildOutcome(client, calls[k].paths, calls[k].id, calls[k].faster) IN
       calls' = [calls EXCEPT ![k] =
                    IF o.ok THEN [@ EXCEPT !.req = [set |-> TRUE, r |-> o.req], !.pc = "do"]
                    ELSE [@ EXCEPT !.ret = [chan |-> "nil", err |-> o.err], !.pc = "returned"]]
    /\ UNCHANGED chans
    /\ ConcUnchanged

\* lines 200-201
CallDo(k) ==
    /\ calls[k].pc = "do"
    /\ calls' = [calls EXCEPT ![k].pc = "await", ![k].net = "inflight"]
    /\ UNCHANGED chans
    /\ ConcUnchanged

ConcRowLists ==
    { << >>,
      << [FileIndex |-> 0, RecognizedText |-> RT_name] >>,
      << [Error |-> "boom", FileIndex |-> 1], [FileIndex |-> 0, RecognizedText |-> RT_name] >> }

ConcResponses ==
    { [kind |-> "transport"],
      [kind |-> "response", StatusCode |-> 500, Body |-> [readable |-> TRUE, t |-> "garbage"]],
      [kind |-> "response", StatusCode |-> StatusOK, Body |-> [readable |-> TRUE, t |-> "garbage"]] }
    \cup { [kind |-> "response", StatusCode |-> StatusOK,
            Body |-> [readable |-> TRUE, t |-> "object", hasRows |-> TRUE, Rows |-> rs]] :
           rs \in ConcRowLists }

\* the service answers call k, or its transport fails
CallRespond(k) ==
    /\ calls[k].net = "inflight"
    /\ \E r \in ConcResponses :
           calls' = [calls EXCEPT ![k].net = "done", ![k].resp = r]
    /\ UNCHANGED chans
    /\ ConcUnchanged

\* lines 202-219
CallHandle(k) ==
    /\ calls[k].pc = "await"
    /\ calls[k].net = "done"
    /\ LET o == ExchangeOutcome(calls[k].resp) IN
       calls' = [calls EXCEPT ![k] =
                    IF o.ok THEN [@ EXCEPT !.rfs = o.rfs, !.pc = "spawn"]
                    ELSE [@ EXCEPT !.ret = [chan |-> "nil", err |-> o.err], !.pc = "returned"]]
    /\ UNCHANGED chans
    /\ ConcUnchanged

\* lines 221-228
CallSpawn(k) ==
    /\ calls[k].pc = "spawn"
    /\ chans' = [chans EXCEPT ![ChanOf(k)] = [NoChan EXCEPT !.made = TRUE]]
    /\ calls' = [calls EXCEPT ![k] =
                    [@ EXCEPT !.chan = ChanOf(k), !.spawned = @ + 1, !.prodPc = "loop",
                              !.prodIdx = 1, !.ret = [chan |-> "filesChan", err |-> NoErr],
                              !.pc = "returned", !.consPc = "recv"]]
    /\ ConcUnchanged

\* line 224 in the goroutine of call k
CallSend(k) ==
    /\ calls[k].prodPc = "loop"
    /\ calls[k].prodIdx <= Len(calls[k].rfs.Rows)
    /\ Len(chans[calls[k].chan].buf) < ChanCap
    /\ chans' = [chans EXCEPT ![calls[k].chan].buf = Append(@, calls[k].rfs.Rows[calls[k].prodIdx])]
    /\ calls' = [calls EXCEPT ![k].prodIdx = @ + 1]
    /\ ConcUnchanged

\* line 226 in the goroutine of call k
CallClose(k) ==
    /\ calls[k].prodPc = "loop"
    /\ calls[k].prodIdx > Len(calls[k].rfs.Rows)
    /\ chans' = [chans EXCEPT ![calls[k].chan].closed = TRUE,
                              ![calls[k].chan].closers = Append(@, k)]
    /\ calls' = [calls EXCEPT ![k].prodPc = "done"]
    /\ ConcUnchanged

\* the caller of call k receives a row
CallRecvRow(k) ==
    /\ calls[k].consPc = "recv"
    /\ Len(chans[calls[k].chan].buf) > 0
    /\ calls' = [calls EXCEPT ![k].received = Append(@, Head(chans[calls[k].chan].buf))]
    /\ chans' = [chans EXCEPT ![calls[k].chan].buf = Tail(@)]
    /\ ConcUnchanged

\* the caller of call k sees its channel closed
CallRecvClosed(k) ==
    /\ calls[k].consPc = "recv"
    /\ Len(chans[calls[k].chan].buf) = 0
    /\ chans[calls[k].chan].closed
    /\ calls' = [calls EXCEPT ![k].consPc = "done"]
    /\ UNCHANGED chans
    /\ ConcUnchanged

\* ------------------------------------------------------------------------
\* Specifications
\* ------------------------------------------------------------------------
NewClient(key) == [apiKey |-> key]

CallPaths == { P_png, P_PDF, P_gone, P_txt, P_abc }

DataSourceIds == { <<"d","s">>, <<"d","%","4","1">>, <<"d","%","z">> }

NoRow == [Error |-> "", FileIndex |-> 0, RecognizedText |-> EmptyMap, Base64Image |-> ""]

\* the state of a call RecognizeCfg(cfg, id, paths...) on NewClient("key") at
\* position at, before its first loop has run
CallState(paths, id, faster, at) ==
    /\ client = NewClient("key")
    /\ filePaths = paths
    /\ dataSourceId = id
    /\ doFaster = faster
    /\ pc = at
    /\ i = 1
    /\ sr = MakeRequest(paths, faster)
    /\ reads = << >>
    /\ buf = [set |-> FALSE]
    /\ req = [set |-> FALSE]
    /\ posts = 0
    /\ net = "idle"
    /\ resp = [kind |-> "unset"]
    /\ rfs = [Rows |-> << >>]
    /\ ret = NoRet
    /\ filesChan = [made |-> FALSE, buf |-> << >>, closed |-> FALSE]
    /\ closes = 0
    /\ prodPc = "none"
    /\ prodIdx = 0
    /\ consPc = "idle"
    /\ received = << >>

AccIdle ==
    /\ rf = NoRow
    /\ field = ""
    /\ acc = [op |-> "none"]
    /\ accT = [op |-> "none"]
    /\ calls = << >>
    /\ chans = << >>

\* --- one call, from its first loop to the end of delivery
Init ==
    /\ \E paths \in SeqsUpTo(CallPaths, MaxFiles), id \in DataSourceIds, faster \in BOOLEAN :
           CallState(paths, id, faster, "mime")
    /\ AccIdle

Next ==
    \/ MimeOk \/ MimeFail \/ MimeDone
    \/ ReadOk \/ ReadFail \/ Marshal
    \/ NewRequestOk \/ NewRequestFail
    \/ HttpDo \/ ServiceRespond \/ DoReturnsResp \/ DoReturnsErr
    \/ StatusNot200 \/ Status200 \/ DecodeOk \/ DecodeFail
    \/ Spawn \/ ReturnChan
    \/ ProducerSend \/ ProducerClose \/ RecvRow \/ RecvClosed

Spec == Init /\ [][Next]_vars

\* --- the same call with every goroutine scheduled and a caller that keeps
\* receiving
FairSpec ==
    /\ Spec
    /\ WF_vars(Spawn) /\ WF_vars(ReturnChan)
    /\ WF_vars(ProducerSend) /\ WF_vars(ProducerClose)
    /\ WF_vars(RecvRow) /\ WF_vars(RecvClosed)

\* --- MIME inference on one path: a call with a single path, up to the end of
\* the first loop
Cases(c) == {c} \cup { p[1] : p \in { q \in CasePairs : q[2] = c } }

RECURSIVE CaseVariants(_)
CaseVariants(s) ==
    IF Len(s) = 0 THEN { << >> }
    ELSE { <<c>> \o r : c \in Cases(Head(s)), r \in CaseVariants(Tail(s)) }

BaseSuffixes ==
    { <<".","b","m","p">>, <<".","g","i","f">>, <<".","p","d","f">>,
      <<".","p","n","g">>, <<".","j","p","g">>, <<".","j","p","e","g">>,
      << >>, <<"p","n","g">>, <<".","p","n">>, <<".","t","x","t">>,
      <<"j","p","e","g">>, <<".","j","p","e">>, <<"x","j","p","g">>,
      <<".","j","p","g","x">>, <<"p","d","f",".">> }

MimePaths ==
    { stem \o v : stem \in SeqsUpTo({"a", "."}, MaxStemLen),
                  v \in UNION { CaseVariants(b) : b \in BaseSuffixes } }

InitMime ==
    /\ \E fp \in MimePaths : CallState(<<fp>>, <<"d","s">>, FALSE, "mime")
    /\ AccIdle

NextMime == MimeOk \/ MimeFail \/ MimeDone

SpecMime == InitMime /\ [][NextMime]_vars

\* --- request construction: the two loops and the serialization
BuildPaths == DiskFiles \cup { P_gone, P_txt }

InitBuild ==
    /\ \E paths \in SeqsUpTo(BuildPaths, MaxFiles), faster \in BOOLEAN :
           CallState(paths, <<"d","s">>, faster, "mime")
    /\ AccIdle

NextBuild == MimeOk \/ MimeFail \/ MimeDone \/ ReadOk \/ ReadFail \/ Marshal

SpecBuild == InitBuild /\ [][NextBuild]_vars

\* --- the accessors on one decoded row
Labels == { "name", "items" }

Str(x) == [t |-> "str", s |-> x]

TableRow1 == [t |-> "obj", m |-> [c \in {"qty", "sku"} |-> IF c = "qty" THEN Str("2") ELSE Str("A1")]]
TableRow2 == [t |-> "obj", m |-> [c \in {"qty", "sku"} |-> IF c = "qty" THEN Str("1") ELSE Str("B2")]]

\* a row map with a value that is no string, and an element that is no row map
TableRowNum == [t |-> "obj", m |-> [c \in {"qty"} |-> [t |-> "num", n |-> 2]]]
TableElems == { TableRow1, TableRow2, TableRowNum, Str("x") }

\* what encoding/json stores in an interface{}: a string, a []interface{}, nil
\* or a float64
JsonValues ==
    { [t |-> "str", s |-> ""], [t |-> "str", s |-> "Acme Corp"],
      [t |-> "null"], [t |-> "num", n |-> 3] }
    \cup { [t |-> "arr", a |-> rows] : rows \in SeqsUpTo(TableElems, MaxTableRows) }

TextMaps == UNION { [D -> JsonValues] : D \in SUBSET Labels }

InitAccess ==
    /\ CallState(<< >>, <<"d","s">>, FALSE, "idle")
    /\ \E m \in TextMaps : rf = [NoRow EXCEPT !.RecognizedText = m]
    /\ field \in Labels \cup { "total" }
    /\ acc = [op |-> "none"]
    /\ accT = [op |-> "none"]
    /\ calls = << >>
    /\ chans = << >>

NextAccess == Get \/ GetTable

SpecAccess == InitAccess /\ [][NextAccess]_vars

\* --- NumCalls concurrent calls on one client
ConcPaths == { << P_png >>, << P_txt >>, << P_gone >> }

InitConc ==
    /\ CallState(<< >>, <<"d","s">>, FALSE, "idle")
    /\ rf = NoRow
    /\ field = ""
    /\ acc = [op |-> "none"]
    /\ accT = [op |-> "none"]
    /\ \E ps \in [CallIds -> ConcPaths] :
           calls = [k \in CallIds |-> NewCall(ps[k], <<"d","s">>, FALSE)]
    /\ chans = [c \in CallIds |-> NoChan]

NextConc ==
    \E k \in CallIds :
        \/ CallBuild(k) \/ CallDo(k) \/ CallRespond(k) \/ CallHandle(k) \/ CallSpawn(k)
        \/ CallSend(k) \/ CallClose(k) \/ CallRecvRow(k) \/ CallRecvClosed(k)

SpecConc == InitConc /\ [][NextConc]_vars

\* ------------------------------------------------------------------------
\* Properties
\* ------------------------------------------------------------------------
IsPrefix(a, b) == Len(a) <= Len(b) /\ a = SubSeq(b, 1, Len(a))

\* the rows the response body holds
BodyRows == JsonDecode(resp.Body).val.Rows

MimeFails == \E k \in 1..Len(filePaths) : ~InferMime(filePaths[k]).ok
ReadFails == \E k \in 1..Len(filePaths) : ~ReadFile(filePaths[k]).ok

\* C1: on a 200 response whose body decodes to r1..rN, what the caller has
\* received is at every moment a prefix of r1..rN, nothing is lost between
\* producer and caller, and when the caller sees the channel closed it has
\* received exactly r1..rN, rows with an Error included.
C1_OrderedDelivery ==
    filesChan.made =>
        /\ resp.kind = "response" /\ resp.StatusCode = StatusOK
        /\ IsPrefix(received, BodyRows)
        /\ received \o filesChan.buf = SubSeq(BodyRows, 1, prodIdx - 1)
        /\ consPc = "done" => received = BodyRows

C1_Witness ==
    /\ consPc = "done"
    /\ Len(received) > ChanCap
    /\ received[3].Error # ""
    /\ received[4].Error = ""

\* C2: with the goroutines scheduled and a caller that keeps receiving, a
\* decoded 200 response of N rows leads to the caller seeing the channel
\* closed after exactly N rows; the channel is closed once, by the producer
\* after its last send, and no row is received after closure was seen.
C2_YieldsNThenCloses ==
    /\ [](closes <= 1)
    /\ [](filesChan.closed => /\ closes = 1
                              /\ prodPc = "done"
                              /\ prodIdx = Len(BodyRows) + 1)
    /\ [](consPc = "done" => filesChan.closed /\ Len(received) = Len(BodyRows))
    /\ [][consPc = "done" => received' = received /\ consPc' = "done"]_vars
    /\ (pc = "spawn") ~> (consPc = "done")

C2_Witness ==
    /\ consPc = "done"
    /\ closes = 1
    /\ Len(received) = ChanCap + 1

\* the failures of categories (a) to (c) as they show in the state
FailureOccurred ==
    \/ MimeFails
    \/ ReadFails
    \/ resp.kind = "transport"
    \/ resp.kind = "response" /\ resp.StatusCode # StatusOK
    \/ resp.kind = "response" /\ resp.StatusCode = StatusOK /\ ~JsonDecode(resp.Body).ok

\* C3: a call that met a failure of input construction, of the request, of
\* the transport, of the status or of decoding returns a non-nil error and a
\* nil channel, and has made no channel and started no producer; a channel is
\* returned only with a nil error.
C3_ErrorMeansNoChannel ==
    pc = "returned" =>
        /\ ret.chan \in {"nil", "filesChan"}
        /\ (ret.chan = "filesChan") <=> (ret.err.kind = "nil")
        /\ FailureOccurred => ret.err.kind # "nil"
        /\ ret.err.kind # "nil" =>
               /\ ret.chan = "nil"
               /\ ~filesChan.made
               /\ prodPc = "none"
               /\ received = << >>

C3_Witness ==
    /\ pc = "returned"
    /\ resp.kind = "response"
    /\ resp.StatusCode = StatusOK
    /\ ret.err.kind = "decode"
    /\ ret.chan = "nil"

\* C4 as stated: a returned call has made no POST when a path fails MIME
\* inference or a file fails to be read, and exactly one otherwise.
C4_PostCountAsStated ==
    pc = "returned" => posts = (IF MimeFails \/ ReadFails THEN 0 ELSE 1)

\* C4 amended: a returned call has called httpClient.Do zero times when a
\* path fails MIME inference, a file fails to be read or http.NewRequest
\* rejects the URL built from the data source id, and exactly once otherwise;
\* every file read precedes the call of Do, and no outcome of the exchange
\* leads to a second one.
C4_PostCount ==
    /\ [](pc = "returned" =>
            posts = (IF MimeFails \/ ReadFails \/ ~UrlParses(dataSourceId) THEN 0 ELSE 1))
    /\ [](posts <= 1)
    /\ [](posts = 1 => Len(reads) = Len(filePaths))
    /\ [][posts >= 1 => reads' = reads /\ posts' = posts]_vars

C4_Witness ==
    /\ pc = "returned"
    /\ posts = 1
    /\ resp.kind = "transport"
    /\ Len(reads) = 2

\* C5: after the exchange the outcome follows the status: 401 gives the
\* invalid-API-key error, 404 the data-source-not-found error, another
\* status that is not 200 an error with the status and, when the body can be
\* read, the body; only 200 reaches the decoder, and a body that does not
\* decode gives the decode error.
C5_OutcomeByStatus ==
    /\ pc \in {"decode", "spawn", "return"} => resp.StatusCode = StatusOK
    /\ (pc = "returned" /\ resp.kind = "response") =>
         LET st == resp.StatusCode IN
         /\ st = 401 => ret.err = [kind |-> "invalid api key"]
         /\ st = 404 => ret.err = [kind |-> "data source not found"]
         /\ st \notin {200, 401, 404} =>
                /\ ret.err.kind = "non-200"
                /\ ret.err.status = st
                /\ ret.err.hasBody = resp.Body.readable
                /\ resp.Body.readable => ret.err.body = resp.Body
         /\ st = 200 =>
                IF JsonDecode(resp.Body).ok
                THEN ret.err.kind = "nil" /\ rfs.Rows = BodyRows
                ELSE ret.err.kind = "decode"

C5_Witness ==
    /\ pc = "returned"
    /\ resp.kind = "response"
    /\ resp.StatusCode = 201
    /\ resp.Body.readable
    /\ ret.err.kind = "non-200"

\* C6: every row the caller received has a FileIndex that is a position of
\* the input list: 0 <= FileIndex < N for a call with N paths.
C6_FileIndexInRange ==
    \A k \in 1..Len(received) :
        /\ 0 <= received[k].FileIndex
        /\ received[k].FileIndex < Len(filePaths)

\* C7: while the exchange is in flight the call is blocked in Do: it has not
\* returned, has made no channel and started no producer; and whatever the
\* producer pushes comes after a response was received and decoded.
C7_Synchronous ==
    /\ net = "inflight" =>
          /\ pc = "await"
          /\ ~filesChan.made
          /\ prodPc = "none"
    /\ pc \in {"returned", "return", "spawn", "decode", "status"} /\ posts > 0 => net = "done"
    /\ (prodPc # "none" \/ Len(filesChan.buf) > 0 \/ Len(received) > 0) =>
          /\ net = "done"
          /\ resp.kind = "response"
          /\ JsonDecode(resp.Body).ok
          /\ rfs = JsonDecode(resp.Body).val

C7_Witness ==
    /\ net = "inflight"
    /\ pc = "await"
    /\ posts = 1
    /\ Len(filePaths) = 2

\* the supported extensions and their MIME types, compared letter by letter
ExtTable ==
    { << <<".","b","m","p">>, "image/bmp" >>,
      << <<".","g","i","f">>, "image/gif" >>,
      << <<".","p","d","f">>, "application/pdf" >>,
      << <<".","p","n","g">>, "image/png" >>,
      << <<".","j","p","g">>, "image/jpg" >>,
      << <<".","j","p","e","g">>, "image/jpeg" >> }

SameLetter(c, d) == c = d \/ <<c, d>> \in CasePairs \/ <<d, c>> \in CasePairs

HasExt(fp, ext) ==
    /\ Len(fp) >= Len(ext)
    /\ \A k \in 1..Len(ext) : SameLetter(fp[Len(fp) - Len(ext) + k], ext[k])

Supported(fp) == \E e \in ExtTable : HasExt(fp, e[1])

\* C8: a path whose suffix is, up to the case of its letters, one of .bmp
\* .gif .pdf .png .jpg .jpeg gets the MIME type of that extension; any other
\* path, and any path shorter than 4 characters, makes the call fail with the
\* error that carries this path.
C8_MimeInference ==
    (Len(filePaths) = 1 /\ (i = 2 \/ pc = "returned")) =>
        LET fp == filePaths[1] IN
        /\ \A e \in ExtTable :
               HasExt(fp, e[1]) => pc # "returned" /\ sr.Files[1].MimeType = e[2]
        /\ (~Supported(fp) \/ Len(fp) < 4) =>
               /\ pc = "returned"
               /\ ret = [chan |-> "nil", err |-> MimeErr(fp)]
               /\ sr.Files[1].MimeType = ""

C8_Witness ==
    /\ i = 2
    /\ pc = "mime"
    /\ sr.Files[1].MimeType = "image/jpeg"
    /\ filePaths[1] = <<"a",".","J","p","E","g">>

\* decoding of padded base64 text, and the MIME type of a supported path
B64Val(c) == CHOOSE v \in 0..63 : B64Alphabet[v + 1] = c

RECURSIVE Base64Decode(_)
Base64Decode(cs) ==
    IF Len(cs) = 0 THEN << >>
    ELSE LET a == B64Val(cs[1])
             b == B64Val(cs[2])
         IN  IF cs[3] = "=" THEN << a * 4 + (b \div 16) >>
             ELSE LET c == B64Val(cs[3]) IN
                  IF cs[4] = "=" THEN << a * 4 + (b \div 16), (b % 16) * 16 + (c \div 4) >>
                  ELSE << a * 4 + (b \div 16), (b % 16) * 16 + (c \div 4),
                          (c % 4) * 64 + B64Val(cs[4]) >>
                       \o Base64Decode(SubSeq(cs, 5, Len(cs)))

ExpectedMime(fp) == (CHOOSE e \in ExtTable : HasExt(fp, e[1]))[2]

\* C9: the serialized request of a batch of N valid, readable paths has N
\* entries under "files", entry k with the MIME type of path k and the
\* padded base64 text of the content of path k.
C9_RequestFiles ==
    buf.set =>
        LET fs == buf.doc.files IN
        /\ ~MimeFails /\ ~ReadFails
        /\ buf.doc.DoFaster = doFaster
        /\ Len(fs) = Len(filePaths)
        /\ \A k \in 1..Len(filePaths) :
               /\ fs[k].MimeType = ExpectedMime(filePaths[k])
               /\ Len(fs[k].Base64File) = 4 * ((Len(FileBytes(filePaths[k])) + 2) \div 3)
               /\ Base64Decode(fs[k].Base64File) = FileBytes(filePaths[k])

C9_Witness ==
    /\ buf.set
    /\ filePaths = << P_png, P_JPG >>
    /\ buf.doc.files[1] = [MimeType |-> "image/png", Base64File |-> <<"T","W","E","=">>]
    /\ buf.doc.files[2] = [MimeType |-> "image/jpg",
                           Base64File |-> <<"/","9","j","/","4","A","=","=">>]

SeqToSet(q) == { q[k] : k \in 1..Len(q) }

\* C10: Get(label) returns the stored string and no error when the value is
\* a string, the empty one included; fails with the labels of the row, each
\* once, when the label is absent; fails naming GetTable when the value is a
\* table.
C10_Get ==
    acc.op = "Get" =>
        LET m == rf.RecognizedText
            out == acc.out
        IN  /\ (field \in DOMAIN m /\ m[field].t = "str") =>
                   out.val = m[field].s /\ out.err.kind = "nil"
            /\ field \notin DOMAIN m =>
                   /\ out.err.kind = "no such field"
                   /\ out.err.field = field
                   /\ SeqToSet(out.err.fields) = DOMAIN m
                   /\ Len(out.err.fields) = Cardinality(DOMAIN m)
            /\ (field \in DOMAIN m /\ m[field].t = "arr") =>
                   /\ out.err.kind = "not a string, use GetTable"
                   /\ out.err.field = field

C10_Witness ==
    /\ acc.op = "Get"
    /\ field = "total"
    /\ DOMAIN rf.RecognizedText = Labels
    /\ acc.out.err.kind = "no such field"

\* the stored value is a sequence of string-to-string row maps
IsTable(v) == v.t = "arr" /\ \A k \in 1..Len(v.a) : v.a[k].t = "obj" /\ AllStrings(v.a[k])

\* C11: GetTable(label) on a value that is a sequence of K string-to-string
\* row maps returns K rows in the stored order, row k with the keys and the
\* values of stored row k; it fails with the labels of the row, each once,
\* when the label is absent, and fails when the value is a string.
C11_GetTable ==
    accT.op = "GetTable" =>
        LET m == rf.RecognizedText
            out == accT.out
        IN  /\ (field \in DOMAIN m /\ IsTable(m[field])) =>
                   /\ out.err.kind = "nil"
                   /\ Len(out.val) = Len(m[field].a)
                   /\ \A k \in 1..Len(m[field].a) :
                          /\ DOMAIN out.val[k] = DOMAIN m[field].a[k].m
                          /\ \A c \in DOMAIN out.val[k] : out.val[k][c] = m[field].a[k].m[c].s
            /\ field \notin DOMAIN m =>
                   /\ out.err.kind = "no such field"
                   /\ out.err.field = field
                   /\ SeqToSet(out.err.fields) = DOMAIN m
                   /\ Len(out.err.fields) = Cardinality(DOMAIN m)
            /\ (field \in DOMAIN m /\ m[field].t = "str") =>
                   /\ out.err.kind = "not a table, use Get"
                   /\ out.val = << >>

C11_Witness ==
    /\ accT.op = "GetTable"
    /\ field = "items"
    /\ "items" \in DOMAIN rf.RecognizedText
    /\ rf.RecognizedText["items"] = [t |-> "arr", a |-> <<TableRow1, TableRow2>>]
    /\ Len(accT.out.val) = 2
    /\ accT.out.val[1]["sku"] = "A1"
    /\ accT.out.val[2]["sku"] = "B2"

\* C15: on one row and one label, Get and GetTable never both succeed;
\* exactly one succeeds when the stored value is a string or a sequence of
\* string-to-string row maps; both return an error when the label is absent
\* or the value is neither a string nor a sequence (null, a number); and no
\* accessor call changes the row.
C15_GetXorGetTable ==
    /\ [](acc.op = "Get" /\ accT.op = "GetTable" =>
            LET m == rf.RecognizedText
                okG == acc.out.err.kind = "nil"
                okT == accT.out.err.kind = "nil"
            IN  /\ ~(okG /\ okT)
                /\ (field \in DOMAIN m /\ (m[field].t = "str" \/ IsTable(m[field]))) =>
                       /\ okG # okT
                       /\ okG <=> m[field].t = "str"
                /\ (field \notin DOMAIN m \/ m[field].t \in {"null", "num"}) =>
                       ~okG /\ ~okT)
    /\ [][rf' = rf]_vars

C15_Witness ==
    /\ acc.op = "Get"
    /\ accT.op = "GetTable"
    /\ field = "name"
    /\ "name" \in DOMAIN rf.RecognizedText
    /\ rf.RecognizedText["name"].t = "null"
    /\ acc.out.err.kind # "nil"
    /\ accT.out.err.kind # "nil"

\* the first path, in input order, whose MIME type cannot be inferred
FirstBadPath ==
    filePaths[CHOOSE k \in 1..Len(filePaths) :
                  /\ ~InferMime(filePaths[k]).ok
                  /\ \A h \in 1..(k - 1) : InferMime(filePaths[h]).ok]

\* C13: no file is read while the first loop runs; when some path of the
\* list, at any position, has an unsupported or too short suffix, no file is
\* ever read and the call returns the MIME error of the first such path,
\* also when an earlier path names a file that cannot be read.
C13_MimeBeforeReads ==
    /\ pc = "mime" => reads = << >>
    /\ MimeFails =>
          /\ reads = << >>
          /\ posts = 0
          /\ pc \in {"mime", "returned"}
          /\ pc = "returned" => ret = [chan |-> "nil", err |-> MimeErr(FirstBadPath)]

C13_Witness ==
    /\ pc = "returned"
    /\ filePaths = << P_gone, P_txt >>
    /\ reads = << >>
    /\ ret.err = MimeErr(P_txt)

\* C14: the channel never holds more than 16 rows; the producer has closed
\* it without any receive only when the response has at most 16 rows; with
\* 16 rows waiting and more to send the producer can neither send nor close,
\* and while the caller does not receive and more than 16 rows are still
\* untaken the channel stays open and the producer stays in its loop.
C14_BoundedChannel ==
    /\ [](filesChan.made =>
            /\ Len(filesChan.buf) <= ChanCap
            /\ prodPc = "done" <=> filesChan.closed
            /\ filesChan.closed => Len(BodyRows) - Len(received) <= ChanCap
            /\ (filesChan.closed /\ received = << >>) => Len(BodyRows) <= ChanCap
            /\ (prodPc = "loop" /\ prodIdx <= Len(rfs.Rows) /\ Len(filesChan.buf) = ChanCap) =>
                   ~ENABLED ProducerSend /\ ~ENABLED ProducerClose)
    /\ [][(filesChan.made /\ Len(BodyRows) - Len(received) > ChanCap /\ received' = received) =>
              ~filesChan'.closed /\ prodPc' = "loop"]_vars

C14_Witness ==
    /\ filesChan.made
    /\ Len(BodyRows) > ChanCap
    /\ Len(filesChan.buf) = ChanCap
    /\ received = << >>
    /\ prodPc = "loop"
    /\ consPc = "recv"
    /\ ~ENABLED ProducerSend

\* the rows of the response of call k
RowsOf(k) == JsonDecode(calls[k].resp.Body).val.Rows

\* C12: with several calls running concurrently on one client, a call that
\* returned a channel started exactly one producer and no other call uses
\* its channel; what its caller received is a prefix of the rows of its own
\* response, and all of them once it saw the channel closed; its channel is
\* closed by its own producer only; a failed call started none; the API key
\* of the client is what NewClient stored and is never written.
C12_CallsIsolated ==
    /\ [](\A k \in CallIds :
            /\ calls[k].req.set => calls[k].req.r.authorization = <<"Basic ", "key">>
            /\ calls[k].ret.chan = "nil" => calls[k].spawned = 0 /\ calls[k].received = << >>
            /\ calls[k].ret.chan = "filesChan" =>
                   LET ch == chans[calls[k].chan] IN
                   /\ calls[k].spawned = 1
                   /\ \A j \in CallIds \ {k} : calls[j].chan # calls[k].chan
                   /\ IsPrefix(calls[k].received, RowsOf(k))
                   /\ calls[k].received \o ch.buf = SubSeq(RowsOf(k), 1, calls[k].prodIdx - 1)
                   /\ \A n \in 1..Len(ch.closers) : ch.closers[n] = k
                   /\ Len(ch.closers) <= 1
                   /\ ch.closed <=> calls[k].prodPc = "done"
                   /\ calls[k].consPc = "done" => calls[k].received = RowsOf(k))
    /\ [](client = NewClient("key"))
    /\ [][client' = client]_vars

C12_Witness ==
    /\ calls[1].consPc = "done"
    /\ calls[2].consPc = "recv"
    /\ Len(calls[1].received) = 2
    /\ Len(calls[2].received) = 1
    /\ Len(RowsOf(2)) = 1
    /\ calls[1].received[1] # calls[2].received[1]

====
